---- MODULE Spec2Model ----
(***************************************************************************)
(* The weather worker: a Cloudflare Worker that forwards city-weather      *)
(* queries to OpenWeatherMap behind a fixed-window, per-IP rate limiter    *)
(* kept in a KV namespace.  The repository holds three versions of the     *)
(* handler; the deployed one is the value of the variable variant.         *)
(*   "index"  src/src/index.ts              limiter on, no CORS            *)
(*   "open"   src/unnamed/part_000 1-236    CORS, path check, limiter off  *)
(*   "cors"   src/unnamed/part_000 238-421  CORS, secrets store, limiter on*)
(* One task per request; a task is suspended at each await and another     *)
(* task may run in between.  The step that resumes a task performs the     *)
(* awaited operation's effect and the synchronous code up to the next      *)
(* await or return.  The variable load is what the clients of the          *)
(* deployment send: a burst of plain requests of one client, or a mix of   *)
(* requests of several clients.                                            *)
(***************************************************************************)
EXTENDS Integers, Sequences, FiniteSets, TLC

VARIABLES variant, load, clock, kv, pc, req, loc, resp, trace,
          seq, admitted, races, foreign, denied

vars == <<variant, load, clock, kv, pc, req, loc, resp, trace,
          seq, admitted, races, foreign, denied>>

(* ---------------------------- bounds ----------------------------------- *)

\* number of request tasks that can be in flight together
MaxTasks == 2

\* admissions beyond the limit of the deployed version in one run of the
\* burst load, and calls counted beyond the limit in one window
MaxOver == 1

\* admissions in one run of the mixed load
MaxShared == 2

\* calls of checkRateLimit that start while another call on the same key
\* is between its read and its return
MaxRaces == 1

\* writes to the namespace that do not come from the worker
MaxForeign == 1

\* calls of checkRateLimit that start while a stalled call on the same key
\* is between its read and its return
MaxStall == 3

\* milliseconds by which one step of the clock advances Date.now()
TimeStep == 40000

\* last value of Date.now() the clock reaches
MaxClock == 119999

Tasks == 1..MaxTasks

(* ------------------------- optional values ----------------------------- *)

\* null / an absent header
Null == {}

Some(x) == {x}

Val(o) == CHOOSE x \in o : TRUE

(* --------------------------- JS numbers -------------------------------- *)

Num(n) == [nan |-> FALSE, v |-> n]

NaN == [nan |-> TRUE, v |-> 0]

\* a >= b : false when either side is NaN
JSGe(a, b) == ~a.nan /\ ~b.nan /\ a.v >= b.v

JSAdd(a, b) == IF a.nan \/ b.nan THEN NaN ELSE Num(a.v + b.v)

JSSub(a, b) == IF a.nan \/ b.nan THEN NaN ELSE Num(a.v - b.v)

Digits == <<"0", "1", "2", "3", "4", "5", "6", "7", "8", "9">>

IsDigit(c) == \E i \in 1..10 : Digits[i] = c

DigitVal(c) == (CHOOSE i \in 1..10 : Digits[i] = c) - 1

RECURSIVE NatToString(_)
NatToString(n) ==
  IF n < 10 THEN <<Digits[n + 1]>>
  ELSE NatToString(n \div 10) \o <<Digits[(n % 10) + 1]>>

\* String(x) of a JS number
NumberToString(x) ==
  IF x.nan THEN <<"N", "a", "N">>
  ELSE IF x.v < 0 THEN <<"-">> \o NatToString(0 - x.v)
  ELSE NatToString(x.v)

RECURSIVE SkipSpace(_)
SkipSpace(s) ==
  IF s # <<>> /\ Head(s) = " " THEN SkipSpace(Tail(s)) ELSE s

RECURSIVE DigitPrefix(_)
DigitPrefix(s) ==
  IF s # <<>> /\ IsDigit(Head(s)) THEN <<Head(s)>> \o DigitPrefix(Tail(s))
  ELSE <<>>

RECURSIVE DigitsValue(_, _)
DigitsValue(s, acc) ==
  IF s = <<>> THEN acc ELSE DigitsValue(Tail(s), acc * 10 + DigitVal(Head(s)))

\* parseInt(s, 10): leading blanks, an optional sign, the longest run of
\* digits; NaN when there is no digit.
parseInt(s) ==
  LET t == SkipSpace(s)
      neg == t # <<>> /\ Head(t) = "-"
      u == IF t # <<>> /\ Head(t) \in {"-", "+"} THEN Tail(t) ELSE t
      d == DigitPrefix(u)
  IN IF d = <<>> THEN NaN
     ELSE Num(IF neg THEN 0 - DigitsValue(d, 0) ELSE DigitsValue(d, 0))

(* ------------------------- configuration ------------------------------- *)

Variants == {"index", "open", "cors"}

RATE_LIMIT_INDEX == 10

RATE_LIMIT_CORS == 30

RATE_LIMIT_WINDOW == 60

\* "remaining" of the version whose limiter is switched off
REMAINING_OPEN == 100

RATE_LIMIT == IF variant = "index" THEN RATE_LIMIT_INDEX ELSE RATE_LIMIT_CORS

\* the versions that call checkRateLimit
Limited == variant \in {"index", "cors"}

\* the versions that answer with CORS headers
WithCors == variant \in {"open", "cors"}

(* ----------------------------- inputs ---------------------------------- *)

UNKNOWN == <<"u", "n", "k", "n", "o", "w", "n">>

\* the values of the CF-Connecting-IP header: absent, empty, an IPv4-like
\* and an IPv6-like address
IpHeaders == {Null, Some(<<>>), Some(<<"7">>), Some(<<":", ":", "1">>)}

Methods == {"GET", "OPTIONS"}

Paths == {"/", "/x"}

OriginHeaders ==
  {Null, Some("http://localhost:5173"), Some("http://evil.example")}

\* the requests clients send, apart from the CF-Connecting-IP header
Requests ==
  {[method |-> m, path |-> p, origin |-> o] :
     m \in Methods, p \in Paths, o \in OriginHeaders}

ALLOWED_ORIGINS ==
  {"http://127.0.0.1:5500", "http://localhost:5500",
   "http://127.0.0.1:3000", "http://localhost:3000",
   "http://127.0.0.1:5173", "http://localhost:5173",
   "http://127.0.0.1:8080", "http://localhost:8080"}

\* what env.WEATHER_API_KEY is at run time
Bindings == {"undefined", "string", "emptystring", "provider", "number"}

\* a status of the weather API that is not ok
UPSTREAM_NOT_FOUND == 404

(* ------------------------- pure functions ------------------------------ *)

\* request.headers.get('CF-Connecting-IP') || 'unknown'
getClientIP(h) == IF h = Null \/ Val(h) = <<>> THEN UNKNOWN ELSE Val(h)

\* Math.floor(Math.floor(Date.now() / 1000) / RATE_LIMIT_WINDOW)
windowKey(ms) == (ms \div 1000) \div RATE_LIMIT_WINDOW

KEY_PREFIX == <<"r", "a", "t", "e", "_", "l", "i", "m", "i", "t", ":">>

\* the key were it to leave out the window
fullKeyNoWindow(ip, w) == KEY_PREFIX \o ip

\* the key were it to leave out the IP
fullKeyNoIp(ip, w) == KEY_PREFIX \o NumberToString(Num(w))

\* `rate_limit:${ip}:${windowKey}`
fullKey(ip, w) == KEY_PREFIX \o ip \o <<":">> \o NumberToString(Num(w))

\* current ? parseInt(current, 10) : 0
countOf(current) ==
  IF current = Null \/ Val(current) = <<>> THEN Num(0) ELSE parseInt(Val(current))

\* the header were it to echo whatever Origin the request has
getCorsHeadersEcho(origin) ==
  IF origin # Null /\ Val(origin) # "" THEN Val(origin) ELSE "*"

\* the value of Access-Control-Allow-Origin
getCorsHeaders(origin) ==
  IF origin # Null /\ Val(origin) # "" /\ Val(origin) \in ALLOWED_ORIGINS
  THEN Val(origin) ELSE "*"

(* ------------------------------ store ---------------------------------- *)

Buckets == {getClientIP(h) : h \in IpHeaders}

Windows == 0..windowKey(MaxClock)

Keys == {fullKey(ip, w) : ip \in Buckets, w \in Windows}

\* kv.get(key)
kvGet(key) == IF key \in DOMAIN kv THEN Some(kv[key].val) ELSE Null

\* the put were its TTL one second short of the window
kvPutShort(key, value, ttl) ==
  [k \in (DOMAIN kv) \cup {key} |->
     IF k = key THEN [val |-> value, exp |-> clock + (ttl - 1) * 1000]
     ELSE kv[k]]

\* kv.put(key, value, { expirationTtl: ttl })
kvPut(key, value, ttl) ==
  [k \in (DOMAIN kv) \cup {key} |->
     IF k = key THEN [val |-> value, exp |-> clock + ttl * 1000] ELSE kv[k]]

\* the store once every key whose expiry has passed at time ms is gone
kvExpire(ms) ==
  [k \in {j \in DOMAIN kv : kv[j].exp > ms} |-> kv[k]]

(* ---------------------------- responses -------------------------------- *)

NoResp ==
  [status |-> 0, json |-> FALSE, fields |-> {}, acao |-> Null,
   rlLimit |-> Null, rlRemaining |-> Null, retryAfter |-> Null, upstream |-> 0]

\* the CORS part of a response's headers: absent in the version without CORS
Cors(origin) == IF WithCors THEN Some(getCorsHeaders(origin)) ELSE Null

\* new Response(null, { status: 204, headers: getCorsHeaders(origin) })
Resp204(origin) ==
  [NoResp EXCEPT !.status = 204, !.acao = Some(getCorsHeaders(origin))]

Resp404(origin) ==
  [NoResp EXCEPT !.status = 404, !.json = TRUE, !.fields = {"error", "message"},
                 !.acao = Some(getCorsHeaders(origin))]

\* the 500 responses of the credential stage
Resp500Cred(origin, fields) ==
  [NoResp EXCEPT !.status = 500, !.json = TRUE, !.fields = fields,
                 !.acao = Some(getCorsHeaders(origin))]

\* the 429 were its Retry-After in milliseconds
Resp429Millis(origin) ==
  [NoResp EXCEPT !.status = 429, !.json = TRUE, !.fields = {"error", "retryAfter"},
                 !.acao = Cors(origin),
                 !.retryAfter = Some(NumberToString(Num(RATE_LIMIT_WINDOW * 1000))),
                 !.rlLimit = Some(NumberToString(Num(RATE_LIMIT))),
                 !.rlRemaining = Some(<<"0">>)]

\* new Response(JSON.stringify({ error, retryAfter }), { status: 429, ... })
Resp429(origin) ==
  [NoResp EXCEPT !.status = 429, !.json = TRUE, !.fields = {"error", "retryAfter"},
                 !.acao = Cors(origin),
                 !.retryAfter = Some(NumberToString(Num(RATE_LIMIT_WINDOW))),
                 !.rlLimit = Some(NumberToString(Num(RATE_LIMIT))),
                 !.rlRemaining = Some(<<"0">>)]

\* index.ts answers with a plain text body, the CORS versions with JSON
Resp502(origin, status) ==
  IF WithCors
  THEN [NoResp EXCEPT !.status = 502, !.json = TRUE, !.fields = {"error", "status"},
                      !.acao = Some(getCorsHeaders(origin)), !.upstream = status]
  ELSE [NoResp EXCEPT !.status = 502, !.upstream = status]

\* the top-level catch
Resp500(origin) ==
  IF WithCors
  THEN [NoResp EXCEPT !.status = 500, !.json = TRUE, !.fields = {"error", "message"},
                      !.acao = Some(getCorsHeaders(origin))]
  ELSE [NoResp EXCEPT !.status = 500]

Resp200(origin, remaining) ==
  [NoResp EXCEPT !.status = 200, !.json = TRUE, !.fields = {"data"},
                 !.acao = Cors(origin),
                 !.rlLimit = Some(NumberToString(Num(RATE_LIMIT))),
                 !.rlRemaining = Some(NumberToString(remaining))]

(* ------------------------------ state ---------------------------------- *)

NoReq == [method |-> "", path |-> "", ipHeader |-> Null, origin |-> Null]

NoLoc ==
  [key |-> <<>>, win |-> 0, count |-> Num(0), allowed |-> "none",
   remaining |-> Num(0), current |-> Null, cred |-> "unread",
   late |-> FALSE]

\* one client that sends GET / as fast as it can, within one window
Burst ==
  [name |-> "burst", ips |-> {Some(<<"7">>)},
   requests |-> {[method |-> "GET", path |-> "/", origin |-> Null]},
   parallel |-> MaxTasks, until |-> RATE_LIMIT_WINDOW * 1000 - 1]

\* one client that sends GET / again and again, one request at a time
Steady ==
  [name |-> "steady", ips |-> {Some(<<"7">>)},
   requests |-> {[method |-> "GET", path |-> "/", origin |-> Null]},
   parallel |-> 1, until |-> MaxClock]

\* several clients, every kind of request, one request at a time
Mixed ==
  [name |-> "mixed", ips |-> IpHeaders, requests |-> Requests,
   parallel |-> 1, until |-> MaxClock]

\* two clients that send GET / at the same time, a few requests, within
\* one window
Crowd ==
  [name |-> "crowd", ips |-> {Null, Some(<<":", ":", "1">>)},
   requests |-> {[method |-> "GET", path |-> "/", origin |-> Null]},
   parallel |-> 2, until |-> RATE_LIMIT_WINDOW * 1000 - 1]

Loads == {Burst, Steady, Mixed, Crowd}

\* one client, a few requests, one at a time: the load of the runs in which
\* the namespace is also written from outside
Visitor ==
  [name |-> "visitor", ips |-> {Some(<<"7">>)},
   requests |-> {[method |-> "GET", path |-> "/", origin |-> Null]},
   parallel |-> 1, until |-> MaxClock]

\* one client that sends GET / as fast as it can, within one window, while
\* one of its requests is held up in checkRateLimit
Stall ==
  [name |-> "stall", ips |-> {Some(<<"7">>)},
   requests |-> {[method |-> "GET", path |-> "/", origin |-> Null]},
   parallel |-> 2, until |-> RATE_LIMIT_WINDOW * 1000 - 1]

\* the bound on the admissions of one run
MaxAdmitted ==
  CASE load.name \in {"mixed", "crowd", "visitor"} -> MaxShared
    [] load.name = "stall" -> RATE_LIMIT + MaxStall
    [] OTHER -> RATE_LIMIT + MaxOver

\* the bound on the calls that start during another call on the same key
MaxOverlaps == IF load.name = "stall" THEN MaxStall ELSE MaxRaces

\* the counting buckets: one per client IP and window
Slots == Buckets \X Windows

\* no key: the operation is not one on the KV namespace
NoKey == <<>>

\* the key of the test read, env.RATE_LIMIT_KV.get('abc')
TEST_KEY == <<"a", "b", "c">>

\* the value of seq for a bucket whose calls are no longer counted
Untracked == 0 - 1

\* the worker is deployed: nothing is stored and no request is in progress
Deployed(loads) ==
  /\ variant \in Variants
  /\ load \in loads
  /\ clock = 0
  /\ kv = <<>>
  /\ pc = [t \in Tasks |-> "idle"]
  /\ req = [t \in Tasks |-> NoReq]
  /\ loc = [t \in Tasks |-> NoLoc]
  /\ resp = [t \in Tasks |-> NoResp]
  /\ trace = [t \in Tasks |-> <<>>]
  /\ seq = [b \in Slots |-> 0]
  /\ admitted = [b \in Slots |-> 0]
  /\ races = 0
  /\ foreign = 0
  /\ denied = {}

Init == Deployed(Loads)

ip(t) == getClientIP(req[t].ipHeader)

\* a task inside checkRateLimit: its get or its put is pending
InCheck(t) == pc[t] \in {"w_get", "w_put"}

\* the task returns r
Return(t, r) ==
  /\ pc' = [pc EXCEPT ![t] = "done"]
  /\ resp' = [resp EXCEPT ![t] = r]

\* an I/O operation and, for an operation on the KV namespace, its key
Op(name, key) == [op |-> name, key |-> key]

\* the task issues the I/O operation op on key and waits for it at w
Await(t, w, op, key) ==
  /\ pc' = [pc EXCEPT ![t] = w]
  /\ trace' = [trace EXCEPT ![t] = Append(@, Op(op, key))]
  /\ UNCHANGED resp

\* History of the calls of checkRateLimit, kept for the properties only.
\*   seq[b]       the number of calls for bucket b that ran their read and
\*                their write to the end, as long as no call for b started
\*                during another one (and at most RATE_LIMIT + MaxOver
\*                are counted)
\*   admitted[b]  the number of calls for bucket b that returned allowed
\*   races        the number of calls that started during another call
\*                on the same key
\*   foreign      the number of writes to the namespace that did not come
\*                from the worker
\*   denied       the buckets in which a call returned not allowed
\* and, in loc[t].late, whether the call of task t started after a call for
\* its bucket had returned not allowed.
Ghosts == <<seq, admitted, races, foreign, denied>>

\* the bucket task t counts in
slot(t) == <<ip(t), loc[t].win>>

\* one more call for a bucket
Counted(n) ==
  IF n = Untracked \/ n >= RATE_LIMIT + MaxOver THEN Untracked ELSE n + 1

\* the admissions so far
RECURSIVE SumAdmitted(_)
SumAdmitted(bs) ==
  IF bs = {} THEN 0
  ELSE LET b == CHOOSE x \in bs : TRUE IN admitted[b] + SumAdmitted(bs \ {b})

\* the tasks that may still be admitted
Candidates == {t \in Tasks : pc[t] \in {"w_cred", "w_kvtest", "w_get", "w_put"}}

\* A task that waits for the secrets store, for the test read of the key
\* 'abc', for the weather API or for its response to be sent: the step that
\* ends the wait reads and writes nothing that another task or the clock
\* touches, so it commutes with their steps and the model lets no step of
\* theirs come before it.
Local(t) == pc[t] \in {"w_cred", "w_kvtest", "w_fetch", "w_json", "done"}

\* task t may take a step
Turn(t) == \A u \in Tasks \ {t} : ~Local(u)

(* ----------------------------- actions --------------------------------- *)

\* checkRateLimit up to its first await: the key from the IP and Date.now(),
\* then kv.get(fullKey) is issued.
EnterCheck(t) ==
  LET w == windowKey(clock)
      key == fullKey(ip(t), w)
      overlap == \E u \in Tasks \ {t} : InCheck(u) /\ loc[u].key = key
  IN /\ overlap => races < MaxOverlaps
     /\ races' = IF overlap THEN races + 1 ELSE races
     /\ loc' = [loc EXCEPT ![t].key = key, ![t].win = w,
                           ![t].late = (<<ip(t), w>> \in denied)]
     /\ seq' = [seq EXCEPT ![<<ip(t), w>>] = IF overlap THEN Untracked ELSE @]
     /\ Await(t, "w_get", "kv.get", key)
     /\ UNCHANGED <<admitted, foreign, denied, kv>>

\* const city = ...; const apiUrl = ...; fetch(apiUrl) is issued
IssueFetch(t) == Await(t, "w_fetch", "fetch", NoKey)

\* a request answered before any I/O
Quiet(t) == UNCHANGED <<trace, loc>>

\* a request answered once env.WEATHER_API_KEY was looked at, before any I/O
Looked(t, binding) ==
  /\ loc' = [loc EXCEPT ![t].cred = binding]
  /\ UNCHANGED trace

\* the credential stage of the version "open", which looks at the shape of
\* env.WEATHER_API_KEY before it uses it
CredentialOpen(t, origin, binding) ==
  CASE binding \in {"undefined", "emptystring"} ->
         /\ Return(t, Resp500Cred(origin, {"error", "hint"}))
         /\ Looked(t, binding)
    [] binding = "string" ->
         /\ IssueFetch(t)
         /\ loc' = [loc EXCEPT ![t] = [NoLoc EXCEPT !.allowed = "yes",
                                         !.remaining = Num(REMAINING_OPEN),
                                         !.cred = binding]]
    [] binding = "provider" ->
         /\ Await(t, "w_cred", "secret.get", NoKey)
         /\ loc' = [loc EXCEPT ![t].cred = binding]
    [] OTHER ->
         /\ Return(t, Resp500Cred(origin, {"error", "type"}))
         /\ Looked(t, binding)

\* the credential stage of the version "cors": env.WEATHER_API_KEY.get() is
\* called whatever the binding is, and throws a TypeError into the inner
\* catch when the binding has no get method
CredentialCors(t, origin, binding) ==
  IF binding = "provider"
  THEN /\ Await(t, "w_cred", "secret.get", NoKey)
       /\ loc' = [loc EXCEPT ![t].cred = binding]
  ELSE /\ Return(t, Resp500Cred(origin, {"error", "message"}))
       /\ Looked(t, binding)

\* fetch(request, env) up to its first await or return
Prologue(t, r, binding) ==
  CASE variant = "index" ->
         /\ Await(t, "w_kvtest", "kv.get", TEST_KEY)
         /\ UNCHANGED loc
    [] variant = "open" ->
         IF r.method = "OPTIONS"
         THEN Return(t, Resp204(r.origin)) /\ Quiet(t)
         ELSE IF r.path # "/"
         THEN Return(t, Resp404(r.origin)) /\ Quiet(t)
         ELSE CredentialOpen(t, r.origin, binding)
    [] variant = "cors" ->
         IF r.method = "OPTIONS"
         THEN Return(t, Resp204(r.origin)) /\ Quiet(t)
         ELSE CredentialCors(t, r.origin, binding)

\* a request arrives and its task runs to the first await or return
Arrive(t) ==
  /\ Turn(t)
  /\ pc[t] = "idle"
  /\ t <= load.parallel
  /\ \A u \in Tasks : u < t => pc[u] # "idle"
  /\ SumAdmitted(Slots) + Cardinality(Candidates) < MaxAdmitted
  /\ \E q \in load.requests, h \in load.ips, b \in Bindings :
       LET r == [method |-> q.method, path |-> q.path, ipHeader |-> h,
                 origin |-> q.origin]
       IN /\ req' = [req EXCEPT ![t] = r]
          /\ Prologue(t, r, b)
  /\ UNCHANGED <<variant, load, clock, kv, Ghosts>>

\* the credential stage were a failed lookup to count against the caller
CredResumeCharged(t) ==
  /\ Turn(t)
  /\ pc[t] = "w_cred"
  /\ \E outcome \in {"value", "empty", "throws"} :
       CASE outcome = "throws" ->
              /\ Return(t, Resp500Cred(req[t].origin, {"error", "message"}))
              /\ Looked(t, outcome)
              /\ kv' = kvPut(fullKey(ip(t), windowKey(clock)),
                             NumberToString(JSAdd(countOf(kvGet(fullKey(ip(t), windowKey(clock)))), Num(1))),
                             RATE_LIMIT_WINDOW)
         [] outcome = "empty" ->
              /\ Return(t, Resp500Cred(req[t].origin, {"error"}))
              /\ Looked(t, outcome)
              /\ UNCHANGED kv
         [] OTHER ->
              /\ UNCHANGED kv
              /\ IF variant = "cors"
                 THEN /\ Await(t, "w_kvtest", "kv.get", TEST_KEY)
                      /\ loc' = [loc EXCEPT ![t].cred = outcome]
                 ELSE /\ IssueFetch(t)
                      /\ loc' = [loc EXCEPT ![t] = [NoLoc EXCEPT !.allowed = "yes",
                                                      !.remaining = Num(REMAINING_OPEN),
                                                      !.cred = outcome]]
  /\ UNCHANGED <<variant, load, clock, req, Ghosts>>

\* env.WEATHER_API_KEY.get() settles
CredResume(t) ==
  /\ Turn(t)
  /\ pc[t] = "w_cred"
  /\ \E outcome \in {"value", "empty", "throws"} :
       CASE outcome = "throws" ->
              /\ Return(t, Resp500Cred(req[t].origin, {"error", "message"}))
              /\ Looked(t, outcome)
         [] outcome = "empty" ->
              /\ Return(t, Resp500Cred(req[t].origin, {"error"}))
              /\ Looked(t, outcome)
         [] OTHER ->
              IF variant = "cors"
              THEN /\ Await(t, "w_kvtest", "kv.get", TEST_KEY)
                   /\ loc' = [loc EXCEPT ![t].cred = outcome]
              ELSE /\ IssueFetch(t)
                   /\ loc' = [loc EXCEPT ![t] = [NoLoc EXCEPT !.allowed = "yes",
                                                   !.remaining = Num(REMAINING_OPEN),
                                                   !.cred = outcome]]
  /\ UNCHANGED <<variant, load, clock, kv, req, Ghosts>>

\* env.RATE_LIMIT_KV.get('abc') settles; checkRateLimit is entered
KVTestResume(t) ==
  /\ Turn(t)
  /\ pc[t] = "w_kvtest"
  /\ \E ok \in BOOLEAN :
       IF ok
       THEN EnterCheck(t)
       ELSE /\ Return(t, Resp500(req[t].origin))
            /\ UNCHANGED <<trace, loc, kv, Ghosts>>
  /\ UNCHANGED <<variant, load, clock, req>>

\* the comparison were it strict: count > RATE_LIMIT
DeniedStrict(count) == ~count.nan /\ count.v > RATE_LIMIT

\* count >= RATE_LIMIT
Denied(count) == JSGe(count, Num(RATE_LIMIT))

\* the denial were it to write the count back and so renew its TTL
DenyRefresh(t, count) ==
  /\ loc' = [loc EXCEPT ![t].count = count, ![t].allowed = "no",
                        ![t].remaining = Num(0),
                        ![t].current = kvGet(loc[t].key)]
  /\ Return(t, Resp429(req[t].origin))
  /\ seq' = [seq EXCEPT ![slot(t)] = Counted(@)]
  /\ denied' = denied \cup {slot(t)}
  /\ kv' = kvPut(loc[t].key, NumberToString(count), RATE_LIMIT_WINDOW)
  /\ UNCHANGED trace

\* if (count >= RATE_LIMIT) return { allowed: false, remaining: 0 }: the
\* handler answers 429
Deny(t, count) ==
  /\ loc' = [loc EXCEPT ![t].count = count, ![t].allowed = "no",
                        ![t].remaining = Num(0),
                        ![t].current = kvGet(loc[t].key)]
  /\ Return(t, Resp429(req[t].origin))
  /\ seq' = [seq EXCEPT ![slot(t)] = Counted(@)]
  /\ denied' = denied \cup {slot(t)}
  /\ UNCHANGED <<trace, kv>>

\* otherwise kv.put(fullKey, ...) is issued
Admit(t, count) ==
  /\ loc' = [loc EXCEPT ![t].count = count, ![t].current = kvGet(loc[t].key)]
  /\ Await(t, "w_put", "kv.put", loc[t].key)
  /\ UNCHANGED <<seq, denied, kv>>

\* kv.get(fullKey) settles: the count is decided on
KVGetResume(t) ==
  /\ Turn(t)
  /\ pc[t] = "w_get"
  /\ \E ok \in BOOLEAN :
       IF ok
       THEN LET count == countOf(kvGet(loc[t].key))
            IN IF Denied(count) THEN Deny(t, count) ELSE Admit(t, count)
       ELSE /\ Return(t, Resp500(req[t].origin))
            /\ UNCHANGED <<trace, loc, seq, denied, kv>>
  /\ UNCHANGED <<variant, load, clock, req, admitted, races, foreign>>

\* String(count + 1)
putValue(count) == NumberToString(JSAdd(count, Num(1)))

\* the remaining quota were it not to count the request itself
remainingBefore(count) == JSSub(Num(RATE_LIMIT), count)

\* RATE_LIMIT - count - 1
remainingOf(count) == JSSub(JSSub(Num(RATE_LIMIT), count), Num(1))

\* the credential the URL of the upstream request is built with: in
\* src/index.ts env.WEATHER_API_KEY, declared a string, is put into the URL
\* as it is, set, empty or not set; the other versions have resolved it
\* before
UsedCredentials(t) ==
  IF variant = "index" THEN {"string", "emptystring", "undefined"}
  ELSE {loc[t].cred}

\* the write were it to add one to the count the store holds when it
\* lands, not to the count the call read
KVPutResumeFresh(t) ==
  /\ Turn(t)
  /\ pc[t] = "w_put"
  /\ \E ok \in BOOLEAN :
       IF ok
       THEN /\ kv' = kvPut(loc[t].key, putValue(countOf(kvGet(loc[t].key))),
                           RATE_LIMIT_WINDOW)
            /\ \E cred \in UsedCredentials(t) :
                 loc' = [loc EXCEPT ![t].allowed = "yes",
                                    ![t].remaining = remainingOf(loc[t].count),
                                    ![t].cred = cred]
            /\ admitted' = [admitted EXCEPT ![slot(t)] = @ + 1]
            /\ seq' = [seq EXCEPT ![slot(t)] = Counted(@)]
            /\ IssueFetch(t)
       ELSE /\ Return(t, Resp500(req[t].origin))
            /\ UNCHANGED <<trace, loc, kv, admitted, seq>>
  /\ UNCHANGED <<variant, load, clock, req, races, foreign, denied>>

\* kv.put(fullKey, String(count + 1), { expirationTtl: RATE_LIMIT_WINDOW })
\* settles; checkRateLimit returns allowed and the upstream fetch is issued
KVPutResume(t) ==
  /\ Turn(t)
  /\ pc[t] = "w_put"
  /\ \E ok \in BOOLEAN :
       IF ok
       THEN /\ kv' = kvPut(loc[t].key, putValue(loc[t].count), RATE_LIMIT_WINDOW)
            /\ \E cred \in UsedCredentials(t) :
                 loc' = [loc EXCEPT ![t].allowed = "yes",
                                    ![t].remaining = remainingOf(loc[t].count),
                                    ![t].cred = cred]
            /\ admitted' = [admitted EXCEPT ![slot(t)] = @ + 1]
            /\ seq' = [seq EXCEPT ![slot(t)] = Counted(@)]
            /\ IssueFetch(t)
       ELSE /\ Return(t, Resp500(req[t].origin))
            /\ UNCHANGED <<trace, loc, kv, admitted, seq>>
  /\ UNCHANGED <<variant, load, clock, req, races, foreign, denied>>

\* the upstream call were it tried again when it throws
FetchResumeRetry(t) ==
  /\ Turn(t)
  /\ pc[t] = "w_fetch"
  /\ \E outcome \in {"ok", "notok", "throws"} :
       CASE outcome = "ok" -> Await(t, "w_json", "json", NoKey)
         [] outcome = "notok" ->
              /\ Return(t, Resp502(req[t].origin, UPSTREAM_NOT_FOUND))
              /\ UNCHANGED trace
         [] OTHER ->
              /\ Len(trace[t]) < 2 * MaxTasks + 6
              /\ IssueFetch(t)
  /\ UNCHANGED <<variant, load, clock, kv, req, loc, Ghosts>>

\* the upstream call were it to give the unit of quota back when the
\* upstream does not answer with success
FetchResumeRefund(t) ==
  /\ Turn(t)
  /\ pc[t] = "w_fetch"
  /\ \E outcome \in {"ok", "notok", "throws"} :
       CASE outcome = "ok" ->
              /\ Await(t, "w_json", "json", NoKey)
              /\ UNCHANGED kv
         [] outcome = "notok" ->
              /\ Return(t, Resp502(req[t].origin, UPSTREAM_NOT_FOUND))
              /\ kv' = kvPut(loc[t].key, NumberToString(loc[t].count),
                             RATE_LIMIT_WINDOW)
              /\ UNCHANGED trace
         [] OTHER ->
              /\ Return(t, Resp500(req[t].origin))
              /\ kv' = kvPut(loc[t].key, NumberToString(loc[t].count),
                             RATE_LIMIT_WINDOW)
              /\ UNCHANGED trace
  /\ UNCHANGED <<variant, load, clock, req, loc, Ghosts>>

\* fetch(apiUrl) settles
FetchResume(t) ==
  /\ Turn(t)
  /\ pc[t] = "w_fetch"
  /\ \E outcome \in {"ok", "notok", "throws"} :
       CASE outcome = "ok" -> Await(t, "w_json", "json", NoKey)
         [] outcome = "notok" ->
              /\ Return(t, Resp502(req[t].origin, UPSTREAM_NOT_FOUND))
              /\ UNCHANGED trace
         [] OTHER ->
              /\ Return(t, Resp500(req[t].origin))
              /\ UNCHANGED trace
  /\ UNCHANGED <<variant, load, clock, kv, req, loc, Ghosts>>

\* resp.json() settles
JsonResume(t) ==
  /\ Turn(t)
  /\ pc[t] = "w_json"
  /\ \E ok \in BOOLEAN :
       IF ok
       THEN Return(t, Resp200(req[t].origin, loc[t].remaining))
       ELSE Return(t, Resp500(req[t].origin))
  /\ UNCHANGED <<variant, load, clock, kv, req, loc, trace, Ghosts>>

\* the runtime sends the response a task returned and the task is over
Deliver(t) ==
  /\ pc[t] = "done"
  /\ pc' = [pc EXCEPT ![t] = "idle"]
  /\ req' = [req EXCEPT ![t] = NoReq]
  /\ loc' = [loc EXCEPT ![t] = NoLoc]
  /\ resp' = [resp EXCEPT ![t] = NoResp]
  /\ trace' = [trace EXCEPT ![t] = <<>>]
  /\ UNCHANGED <<variant, load, clock, kv, Ghosts>>

\* time passes; the store drops the keys whose TTL has run out
Tick ==
  /\ \A t \in Tasks : ~Local(t)
  /\ clock + TimeStep <= load.until
  /\ clock' = clock + TimeStep
  /\ kv' = kvExpire(clock + TimeStep)
  /\ UNCHANGED <<variant, load, pc, req, loc, resp, trace, Ghosts>>

Next ==
  \/ \E t \in Tasks : Arrive(t)
  \/ \E t \in Tasks : CredResume(t)
  \/ \E t \in Tasks : KVTestResume(t)
  \/ \E t \in Tasks : KVGetResume(t)
  \/ \E t \in Tasks : KVPutResume(t)
  \/ \E t \in Tasks : FetchResume(t)
  \/ \E t \in Tasks : JsonResume(t)
  \/ \E t \in Tasks : Deliver(t)
  \/ Tick

Spec == Init /\ [][Next]_vars

(* ------------------- the namespace written from outside ----------------- *)

\* RATE_LIMIT_KV is a namespace of the account: the dashboard, wrangler or
\* another worker bound to it can write any string under any key, without a
\* TTL.  The worker itself reads a key it never writes ('abc').
ForeignValues ==
  {<<>>, <<"x">>, <<"5", "x">>, <<" ", "3">>, <<"-", "2">>, <<"1", "2">>}

\* a key written without expirationTtl does not expire
NeverExpires == MaxClock + 1

ForeignPut ==
  /\ foreign < MaxForeign
  /\ \A t \in Tasks : ~Local(t)
  /\ \E b \in Slots, v \in ForeignValues :
       LET key == fullKey(b[1], b[2])
       IN /\ kv' = [k \in (DOMAIN kv) \cup {key} |->
                     IF k = key THEN [val |-> v, exp |-> NeverExpires] ELSE kv[k]]
          /\ seq' = [seq EXCEPT ![b] = Untracked]
  /\ foreign' = foreign + 1
  /\ UNCHANGED <<variant, load, clock, pc, req, loc, resp, trace,
                 admitted, races, denied>>

InitForeign == Deployed({Visitor})

NextForeign == Next \/ ForeignPut

SpecForeign == InitForeign /\ [][NextForeign]_vars

(* ---------------------- the rate limiter's properties ------------------- *)

\* task t is back from checkRateLimit with a result
Returned(t) ==
  /\ Limited
  /\ pc[t] \in {"w_fetch", "w_json", "done"}
  /\ loc[t].allowed # "none"

\* Date.now() is still in the window task t computed its key from
InWindow(t) == windowKey(clock) = loc[t].win

\* the count a store holds under a key, a missing key being 0
CountIn(store, key) ==
  IF key \in DOMAIN store THEN countOf(Some(store[key].val)) ELSE Num(0)

\* C1: calls for one IP that run one after the other within one window,
\* the key absent at the first: the N-th call (N <= RATE_LIMIT) is allowed
\* with remaining = RATE_LIMIT - N, the call after the RATE_LIMIT-th is
\* denied with remaining = 0.
C1_SequentialCalls ==
  \A t \in Tasks :
    (Returned(t) /\ InWindow(t) /\ seq[slot(t)] # Untracked) =>
      LET N == seq[slot(t)]
      IN /\ N >= 1
         /\ N <= RATE_LIMIT =>
              /\ loc[t].allowed = "yes"
              /\ loc[t].remaining = Num(RATE_LIMIT - N)
         /\ N = RATE_LIMIT + 1 =>
              /\ loc[t].allowed = "no"
              /\ loc[t].remaining = Num(0)

\* the call after the RATE_LIMIT-th of a sequence has just been denied
C1_Witness ==
  \E t \in Tasks :
    /\ Returned(t) /\ InWindow(t)
    /\ seq[slot(t)] = RATE_LIMIT + 1
    /\ loc[t].allowed = "no"

\* C2: whatever the interleaving of the requests, at most RATE_LIMIT
\* requests of one IP are admitted in one window.
C2_AtMostLimit == \A b \in Slots : admitted[b] <= RATE_LIMIT

\* C3: a put that lands on a count another call has written since this
\* call's read overwrites it with this call's smaller count: an update is
\* lost, and the stored count falls below the number of admitted requests.
C3_LostUpdate ==
  [][\A t \in Tasks :
       (/\ pc[t] = "w_put" /\ pc'[t] = "w_fetch"
        /\ CountIn(kv, loc[t].key).v > loc[t].count.v) =>
         /\ CountIn(kv', loc[t].key) = JSAdd(loc[t].count, Num(1))
         /\ CountIn(kv', loc[t].key).v <= CountIn(kv, loc[t].key).v
         /\ CountIn(kv', loc[t].key).v < admitted'[slot(t)]]_vars

\* calls have overlapped, and more than RATE_LIMIT requests of one IP were
\* admitted in one window while the store holds a count within the limit
C3_Witness ==
  /\ races > 0
  /\ \E b \in Slots :
       /\ admitted[b] > RATE_LIMIT
       /\ CountIn(kv, fullKey(b[1], b[2])).v <= RATE_LIMIT
       /\ CountIn(kv, fullKey(b[1], b[2])).v < admitted[b]

\* C4: the store starts empty and only checkRateLimit writes it; every key
\* is one of its keys and every stored count is an integer of 0..RATE_LIMIT.
C4_CountInRange ==
  /\ DOMAIN kv \subseteq Keys
  /\ \A k \in DOMAIN kv :
       LET count == parseInt(kv[k].val)
       IN /\ ~count.nan
          /\ count.v \in 0..RATE_LIMIT
          /\ kv[k].val = NumberToString(count)

\* the store holds RATE_LIMIT while a call that read RATE_LIMIT - 1 is about
\* to write
C4_Witness ==
  \E t \in Tasks :
    /\ pc[t] = "w_put"
    /\ loc[t].count = Num(RATE_LIMIT - 1)
    /\ CountIn(kv, loc[t].key) = Num(RATE_LIMIT)

\* C5: a call that is denied issues no put: the step that denies leaves
\* the value and the expiry of every key as they were.
C5_DeniedNoWrite ==
  [][\A t \in Tasks :
       (pc[t] = "w_get" /\ loc'[t].allowed = "no") =>
         /\ kv' = kv
         /\ \A i \in DOMAIN trace'[t] : trace'[t][i].op # "kv.put"]_vars

\* a request was denied some time after the last write of its key: the
\* key's expiry is the one of that write
C5_Witness ==
  \E t \in Tasks :
    /\ Returned(t) /\ loc[t].allowed = "no"
    /\ loc[t].key \in DOMAIN kv
    /\ kv[loc[t].key].val = NumberToString(Num(RATE_LIMIT))
    /\ kv[loc[t].key].exp < clock + RATE_LIMIT_WINDOW * 1000

\* the KV operations of task t so far
KVOps(t) == {i \in DOMAIN trace[t] : trace[t][i].op \in {"kv.get", "kv.put"}}

\* C6: whatever the count of window w, the first call of an IP in window
\* w + 1 sees the count 0, is allowed with remaining = RATE_LIMIT - 1 and
\* writes "1" under the key of w + 1; it neither reads nor writes the key
\* of another window.
C6_WindowRollover ==
  \A t \in Tasks :
    (Returned(t) /\ InWindow(t) /\ seq[slot(t)] = 1) =>
      /\ loc[t].count = Num(0)
      /\ loc[t].allowed = "yes"
      /\ loc[t].remaining = Num(RATE_LIMIT - 1)
      /\ loc[t].key = fullKey(ip(t), windowKey(clock))
      /\ kvGet(loc[t].key) = Some(<<"1">>)
      /\ \A w \in Windows \ {loc[t].win} :
           /\ fullKey(ip(t), w) # loc[t].key
           /\ \A i \in KVOps(t) : trace[t][i].key # fullKey(ip(t), w)

\* the first call of window 1 has returned while the key of window 0 is
\* still stored, at RATE_LIMIT
C6_Witness ==
  \E t \in Tasks :
    /\ Returned(t) /\ InWindow(t)
    /\ loc[t].win = 1 /\ seq[slot(t)] = 1
    /\ kvGet(fullKey(ip(t), 0)) = Some(NumberToString(Num(RATE_LIMIT)))

\* IP strings and window indexes the key is compared over: with colons,
\* with digits, one a prefix of another
IpSamples ==
  Buckets \cup {<<"7", ":", "0">>, <<"7", ":">>, <<"7", "1">>, <<":", ":">>}

WindowSamples == Windows \cup {10, 11}

\* the keys of these
SampleKeys == [a \in IpSamples, w \in WindowSamples |-> fullKey(a, w)]

\* C7: two calls use the same key if and only if their client IP strings
\* and their window indexes are the same; the key a call reads (and later
\* writes) is the key of no other pair (IP, window), colons and digits in
\* the IP included; a call without CF-Connecting-IP counts in the bucket
\* "unknown".
C7_KeyPerIpAndWindow ==
  \A t \in Tasks :
    loc[t].key # NoKey =>
      /\ req[t].ipHeader = Null =>
           loc[t].key = KEY_PREFIX \o UNKNOWN \o <<":">>
                          \o NumberToString(Num(loc[t].win))
      /\ req[t].ipHeader \notin {Null, Some(<<>>)} =>
           loc[t].key = KEY_PREFIX \o Val(req[t].ipHeader) \o <<":">>
                          \o NumberToString(Num(loc[t].win))
      /\ pc[t] = "w_get" =>
           \A a \in IpSamples, w \in WindowSamples :
             (loc[t].key = SampleKeys[a, w]) <=> (a = ip(t) /\ w = loc[t].win)
      /\ \A u \in Tasks :
           loc[u].key # NoKey =>
             ((loc[t].key = loc[u].key) <=>
                (ip(t) = ip(u) /\ loc[t].win = loc[u].win))

\* a call without the header has written its count while a call of an IPv6
\* client is in progress in the same window
C7_Witness ==
  \E t, u \in Tasks :
    /\ Returned(t) /\ InCheck(u)
    /\ req[t].ipHeader = Null /\ req[u].ipHeader = Some(<<":", ":", "1">>)
    /\ loc[t].win = loc[u].win
    /\ loc[t].key \in DOMAIN kv /\ loc[u].key \notin DOMAIN kv

\* C8: a call whose read finds no value, or a value that does not parse
\* as an integer, is allowed with remaining = RATE_LIMIT - 1 and writes "1".
C8_UnparsableAsZero ==
  \A t \in Tasks :
    (/\ Returned(t)
     /\ \/ loc[t].current = Null
        \/ parseInt(Val(loc[t].current)).nan) =>
      /\ loc[t].allowed = "yes"
      /\ loc[t].remaining = Num(RATE_LIMIT - 1)
      /\ kvGet(loc[t].key) = Some(<<"1">>)

\* the first of the operations of task t that are op, 0 if there is none
First(t, op) ==
  IF \E i \in DOMAIN trace[t] : trace[t][i].op = op
  THEN CHOOSE i \in DOMAIN trace[t] :
         /\ trace[t][i].op = op
         /\ \A j \in 1..(i - 1) : trace[t][j].op # op
  ELSE 0

\* C9: a task that has issued the upstream fetch is back from checkRateLimit,
\* allowed, its read and its write issued before the fetch in this order; a
\* denied task has ended with 429, Retry-After = RATE_LIMIT_WINDOW,
\* X-RateLimit-Limit = RATE_LIMIT, X-RateLimit-Remaining = 0, and has issued
\* no fetch.
C9_CheckBeforeFetch ==
  \A t \in Tasks :
    /\ (Limited /\ First(t, "fetch") # 0) =>
         /\ loc[t].allowed = "yes"
         /\ \E g, p \in DOMAIN trace[t] :
              /\ trace[t][g] = Op("kv.get", loc[t].key)
              /\ trace[t][p] = Op("kv.put", loc[t].key)
              /\ g < p /\ p < First(t, "fetch")
    /\ InCheck(t) => First(t, "fetch") = 0
    /\ loc[t].allowed = "no" =>
         /\ pc[t] = "done"
         /\ resp[t].status = 429
         /\ First(t, "fetch") = 0
    /\ resp[t].status = 429 =>
         /\ loc[t].allowed = "no"
         /\ resp[t].retryAfter = Some(NumberToString(Num(RATE_LIMIT_WINDOW)))
         /\ resp[t].rlLimit = Some(NumberToString(Num(RATE_LIMIT)))
         /\ resp[t].rlRemaining = Some(<<"0">>)

\* a task was denied and has ended with 429
C9_Witness ==
  \E t \in Tasks :
    /\ loc[t].allowed = "no" /\ resp[t].status = 429
    /\ trace[t] # <<>>

\* C10: an OPTIONS request, whatever its path, ends at once with 204, no
\* body and the CORS headers, and issues no KV read, no KV write, no
\* credential retrieval and no upstream fetch.
C10_OptionsNoIO ==
  \A t \in Tasks :
    req[t].method = "OPTIONS" =>
      /\ pc[t] = "done"
      /\ resp[t].status = 204
      /\ ~resp[t].json /\ resp[t].fields = {}
      /\ resp[t].acao # Null
      /\ trace[t] = <<>>

(* ------------------------ the handler's properties ---------------------- *)

\* what task t found env.WEATHER_API_KEY to be when it is not a usable key:
\* not set, a value of another type, the empty string, a provider that
\* resolved to the empty string, a provider whose get() failed
BadCredentials == {"undefined", "number", "emptystring", "empty", "throws"}

\* C11: a request whose credential is absent, of an unrecognised shape,
\* empty, or whose get() fails, ends with 500 in the step that finds it so
\* and issues no upstream fetch.
C11_BadCredentialNoFetch ==
  \A t \in Tasks :
    loc[t].cred \in BadCredentials =>
      /\ First(t, "fetch") = 0
      /\ pc[t] = "done"
      /\ resp[t].status = 500

\* a step of a task that waits for an operation no other task observes
\* (at most one task does at a time)
LocalStep ==
  \E t \in Tasks :
    \/ CredResume(t) \/ KVTestResume(t) \/ FetchResume(t) \/ JsonResume(t)
    \/ Deliver(t)

\* a step of task t in checkRateLimit
CheckStep(t) == KVGetResume(t) \/ KVPutResume(t)

\* Every awaited operation settles, by a result or by a failure, and the
\* runtime sends every response that was returned.  (A task that waits for
\* the KV store is overtaken by other tasks again and again, hence SF.)
Settles ==
  /\ WF_vars(LocalStep)
  /\ \A t \in Tasks : SF_vars(CheckStep(t))

\* requests of one client one at a time, or of two clients at once
InitLive == Deployed({Visitor, Crowd})

SpecLive == InitLive /\ [][Next]_vars /\ Settles

\* the statuses the handler answers with
TerminalStatuses == {204, 404, 429, 500, 502, 200}

\* C12: a task has no response until it returns and then one response, of
\* status 204, 404, 429, 500, 502 or 200, which no later step changes; it
\* issues no operation twice; and, every awaited operation settling, every
\* request comes to its response.
C12_OneTerminalResponse ==
  /\ [](\A t \in Tasks :
          /\ pc[t] = "done" <=> resp[t] # NoResp
          /\ pc[t] = "done" => resp[t].status \in TerminalStatuses
          /\ \A i, j \in DOMAIN trace[t] : trace[t][i] = trace[t][j] => i = j)
  /\ [][\A t \in Tasks :
          pc[t] = "done" =>
            \/ pc'[t] = "idle" /\ resp'[t] = NoResp
            \/ pc'[t] = "done" /\ resp'[t] = resp[t]]_vars
  /\ \A t \in Tasks : (pc[t] # "idle") ~> (pc[t] = "done")

\* a request has ended with 500 after its KV read, its KV write and its
\* upstream call
C12_Witness ==
  \E t \in Tasks :
    /\ pc[t] = "done" /\ resp[t].status = 500
    /\ First(t, "kv.put") # 0 /\ First(t, "fetch") # 0

\* C13: every response of status 404, 429, 500 or 502 has a JSON body with
\* an error field; the 502 for the upstream status s has the body
\* {error, status: s}; the 500 for an exception thrown after the credential
\* stage has the body {error, message}.
C13_ErrorsAreJson ==
  \A t \in Tasks :
    (pc[t] = "done" /\ resp[t].status \in {404, 429, 500, 502}) =>
      /\ resp[t].json
      /\ "error" \in resp[t].fields
      /\ resp[t].status = 502 =>
           /\ resp[t].fields = {"error", "status"}
           /\ resp[t].upstream = UPSTREAM_NOT_FOUND
      /\ (resp[t].status = 500 /\ KVOps(t) # {}) =>
           resp[t].fields = {"error", "message"}

\* C14: on a 200 response X-RateLimit-Remaining is RATE_LIMIT - count - 1
\* for the count the request read, a number of 0..RATE_LIMIT - 1 and so not
\* above X-RateLimit-Limit; on a 429 response it is 0.
C14_RemainingConsistent ==
  \A t \in Tasks :
    (pc[t] = "done" /\ resp[t].rlRemaining # Null) =>
      /\ resp[t].status \in {200, 429}
      /\ resp[t].status = 200 =>
           /\ ~loc[t].count.nan
           /\ RATE_LIMIT - loc[t].count.v - 1 \in 0..(RATE_LIMIT - 1)
           /\ resp[t].rlRemaining =
                Some(NumberToString(Num(RATE_LIMIT - loc[t].count.v - 1)))
           /\ resp[t].rlLimit # Null
           /\ parseInt(Val(resp[t].rlRemaining)).v
                <= parseInt(Val(resp[t].rlLimit)).v
      /\ resp[t].status = 429 => resp[t].rlRemaining = Some(<<"0">>)

\* 127.0.0.1 and localhost on the ports 3000, 5173, 5500 and 8080
LoopbackOrigins ==
  {"http://127.0.0.1:3000", "http://localhost:3000",
   "http://127.0.0.1:5173", "http://localhost:5173",
   "http://127.0.0.1:5500", "http://localhost:5500",
   "http://127.0.0.1:8080", "http://localhost:8080"}

\* Origin headers: none, empty, the loopback origins, and origins close to
\* them
OriginSamples ==
  {Null, Some("")} \cup {Some(o) : o \in LoopbackOrigins}
    \cup {Some("http://evil.example"), Some("https://localhost:5173"),
          Some("http://localhost:5174"), Some("http://localhost:3000/"),
          Some("http://localhost")}

\* the Access-Control-Allow-Origin the policy gives an Origin header
AllowOrigin(origin) ==
  IF origin # Null /\ Val(origin) \in LoopbackOrigins THEN Val(origin) ELSE "*"

\* C15: Access-Control-Allow-Origin is the request's Origin when that is one
\* of the eight loopback origins and "*" otherwise, an absent Origin
\* included; every response of the versions with CORS carries it.
C15_CorsOnEveryResponse ==
  \A t \in Tasks :
    (WithCors /\ pc[t] = "done") =>
      /\ resp[t].acao = Some(AllowOrigin(req[t].origin))
      /\ \A o \in OriginSamples : getCorsHeaders(o) = AllowOrigin(o)

\* a 502 to a request of an allow-listed origin names that origin, in a
\* version with CORS
C15_Witness ==
  \E t \in Tasks :
    /\ WithCors /\ pc[t] = "done" /\ resp[t].status = 502
    /\ req[t].origin = Some("http://localhost:5173")
    /\ resp[t].acao = req[t].origin

\* the key of each bucket
SlotKey == [b \in Slots |-> fullKey(b[1], b[2])]

\* the first millisecond after window w
WindowEnd(w) == (w + 1) * RATE_LIMIT_WINDOW * 1000

\* C16: a stored counter does not expire before the end of its window, so
\* as long as a window is current the counter of a bucket that admitted a
\* request in it is stored; expiry removes counters of past windows only.
C16_NoExpiryInWindow ==
  \A b \in Slots :
    /\ SlotKey[b] \in DOMAIN kv => kv[SlotKey[b]].exp >= WindowEnd(b[2])
    /\ (admitted[b] > 0 /\ clock < WindowEnd(b[2])) => SlotKey[b] \in DOMAIN kv
    /\ (admitted[b] > 0 /\ SlotKey[b] \notin DOMAIN kv) =>
         windowKey(clock) > b[2]

\* the counter of window 0 was dropped once window 0 was over, while the
\* same client's counter of window 1 is stored
C16_Witness ==
  \E c \in Buckets :
    /\ admitted[<<c, 0>>] > 0 /\ admitted[<<c, 1>>] > 0
    /\ SlotKey[<<c, 0>>] \notin DOMAIN kv
    /\ SlotKey[<<c, 1>>] \in DOMAIN kv
    /\ windowKey(clock) = 1

InitStall == Deployed({Stall})

SpecStall == InitStall /\ [][Next]_vars

\* C17: once a call of an IP was denied in a window, no call of that IP
\* that starts afterwards in the window is allowed, and no step lowers a
\* stored counter.
C17_StickyDenial ==
  /\ [](\A t \in Tasks :
          (loc[t].late /\ InWindow(t)) =>
            /\ pc[t] # "w_put"
            /\ loc[t].allowed # "yes")
  /\ [][\A k \in (DOMAIN kv) \cap (DOMAIN kv') :
          CountIn(kv', k).v >= CountIn(kv, k).v]_vars

\* task t is past an allowed checkRateLimit: its upstream call is pending,
\* or it has returned 502, 500 or 200 after it
PastCheck(t) ==
  /\ Limited
  /\ loc[t].allowed = "yes"
  /\ \/ pc[t] \in {"w_fetch", "w_json"}
     \/ pc[t] = "done" /\ resp[t].status \in {502, 500, 200}

BeforeCheck == {"idle", "w_cred", "w_kvtest"}

\* task t has returned without having entered checkRateLimit
EndedBeforeCheck(t) ==
  /\ pc[t] = "done"
  /\ loc[t].key = NoLoc.key
  /\ loc[t].allowed = "none"

\* the key of the bucket a request of task t counts against now
BucketKey(t) == fullKey(ip(t), windowKey(clock))

\* C19: a request that returns before checkRateLimit is entered (204 to a
\* preflight, 404 to another path, 500 from the credential stage) has a
\* status among 204, 404, 500, has issued no kv.put and no read of a
\* counter, and none of its steps changes the store or the number of
\* admissions: its bucket holds what it held when the request arrived.
C19_EarlyExitNoWrite ==
  /\ [](\A t \in Tasks :
          EndedBeforeCheck(t) =>
            /\ resp[t].status \in {204, 404, 500}
            /\ \A i \in DOMAIN trace[t] :
                 /\ trace[t][i].op # "kv.put"
                 /\ trace[t][i].op = "kv.get" => trace[t][i].key = TEST_KEY)
  /\ [][\A t \in Tasks :
          (pc[t] \in BeforeCheck /\ pc'[t] # pc[t]) =>
            /\ kv' = kv
            /\ admitted' = admitted
            /\ pc'[t] = "done" => EndedBeforeCheck(t)']_vars

\* in a version with CORS a request whose credential lookup failed has
\* returned 500 while the bucket of its caller holds a count
C19_Witness ==
  \E t \in Tasks :
    /\ WithCors
    /\ EndedBeforeCheck(t)
    /\ resp[t].status = 500
    /\ First(t, "secret.get") # 0
    /\ BucketKey(t) \in DOMAIN kv
    /\ CountIn(kv, BucketKey(t)).v >= 1

====
